---- MODULE Spec2Model ----
(***************************************************************************)
(* Model of the real-time chat backend: the socket gateway                 *)
(* (socket/index.js, kept as src/unnamed/part_000), the Conversation model *)
(* (kept in src/backend/src/auth/google.js, lines 85-335) and the Message  *)
(* and Room models (src/backend/src/models/Message.js).                    *)
(*                                                                         *)
(* Every `await` of a store operation is one atomic step; the synchronous  *)
(* code that follows it, up to the next await, belongs to the same step.   *)
(* Object ids are naturals; insertion order is id order.  Dates are read   *)
(* from a logical clock.  The callback invoked and the event emitted by a  *)
(* step are kept until the next step.                                      *)
(***************************************************************************)
EXTENDS Integers, Sequences, FiniteSets, TLC

\* ------------------------------------------------------------ bounds
NumUsers == 2
NumConns == 2
MaxConvs == 2
MaxMsgs == 2
MaxRooms == 2
NumWorkers == 2
MaxCap == 3
MaxVersion == 3
MaxUnread == 2

\* ------------------------------------------------- program constants
MaxContentLen == 5000
DefaultMaxMembers == 100
MinMaxMembers == 2
\* the length of "This message was deleted"
TombstoneLen == 24
RecentLimit == 50

Users == 1..NumUsers
\* object ids a client can name: the stored users and 0, the id of no stored user
Ids == 0..NumUsers
Conns == 1..NumConns
Workers == 1..NumWorkers
ConvIds == 1..MaxConvs
RoomIds == 1..MaxRooms
RoomNames == {"general", "random"}
Roles == {"owner", "admin", "member"}
\* message contents by their trimmed length: missing, short, over the limit
ContentLens == {0, 2, MaxContentLen + 1}
NoToken == [kind |-> "unset", id |-> 0]
Tokens ==
  {[kind |-> "none", id |-> 0], [kind |-> "invalid", id |-> 0]}
    \cup {[kind |-> "valid", id |-> i] : i \in Ids}

VARIABLES
  status,      \* User.status, per stored user
  convs,       \* the Conversation collection, in insertion order
  rooms,       \* the Room collection, in insertion order
  messages,    \* the Message collection, in insertion order
  clock,       \* the last Date handed out
  state,       \* per connection: Unauthenticated, Rejected, Authenticated, Closed
  handshake,   \* socket.handshake.auth.token
  userId,      \* socket.userId (0 while unset)
  registered,  \* the connection's command handlers are registered
  subs,        \* the channels the connection has joined
  pc,          \* the await the connection's running handler is at
  local,       \* that handler's payload and local variables
  off,         \* the connection's disconnect handler: none, pending, done
  out,         \* the callback(...) invoked by the last step
  emitted,     \* the event emitted by the last step, and the sockets it reached
  wpc,         \* per caller of the Room model: idle, or loaded (holds a document)
  wdoc,        \* the Room document that caller holds
  wres         \* the Room model call made by the last step, and its outcome

gatewayVars == <<state, handshake, userId, registered, subs, pc, local, off, out, emitted>>
storeVars == <<status, convs, rooms, messages, clock>>
workerVars == <<wpc, wdoc, wres>>
vars == <<storeVars, gatewayVars, workerVars>>

\* ------------------------------------------------------------ helpers
Range(s) == {s[i] : i \in DOMAIN s}

Chan(kind, id) == [kind |-> kind, id |-> id]

\* a handler's frame: the command, its payload and its local variables
NoLocal ==
  [cmd |-> "none", conversationId |-> 0, otherUserId |-> 0, roomId |-> 0,
   content |-> 0, message |-> 0]

Frame(cmd) == [NoLocal EXCEPT !.cmd = cmd]

\* a callback: the connection answered, the command and the id its payload
\* named (req), success or the error, the id of the record returned, the list
NoOut ==
  [conn |-> 0, kind |-> "none", req |-> 0, ok |-> FALSE, error |-> "", id |-> 0,
   list |-> <<>>]

Success(c, kind, req, id) ==
  [NoOut EXCEPT !.conn = c, !.kind = kind, !.req = req, !.ok = TRUE, !.id = id]

Failure(c, kind, req, msg) ==
  [NoOut EXCEPT !.conn = c, !.kind = kind, !.req = req, !.error = msg]

NoEvent == [type |-> "none", id |-> 0, from |-> 0, to |-> {}]

Event(type, id, from, to) == [type |-> type, id |-> id, from |-> from, to |-> to]

\* ------------------------------------------------ Conversation model
\* [user1Id, user2Id].sort()
SortPair(a, b) == IF a <= b THEN <<a, b>> ELSE <<b, a>>

\* the filter { participants: { $in: participants } }
MatchesAny(doc, participants) ==
  /\ Len(doc.participants) = 2
  /\ \E i \in DOMAIN participants : participants[i] \in Range(doc.participants)

\* the filter { participants: { $all: participants, $size: 2 } }
MatchesAll(doc, participants) ==
  /\ Len(doc.participants) = 2
  /\ \A i \in DOMAIN participants : participants[i] \in Range(doc.participants)

\* findOne: the first matching document in natural order, 0 when none
FindOneConv(participants) ==
  LET hits == {k \in DOMAIN convs : MatchesAll(convs[k], participants)}
  IN IF hits = {} THEN 0 ELSE CHOOSE k \in hits : \A j \in hits : k <= j

\* the pre("save") hook on a new document: one entry per element of participants
InitPerUser(participants, value) ==
  [i \in DOMAIN participants |-> [user |-> participants[i], val |-> value]]

NewConversation(participants, now) ==
  [participants |-> participants,
   lastMessage |-> 0,
   lastMessageAt |-> now,
   unreadCount |-> InitPerUser(participants, 0),
   isArchived |-> InitPerUser(participants, FALSE),
   isPinned |-> InitPerUser(participants, FALSE),
   typingUsers |-> <<>>,
   v |-> 0]

\* the test of a handler that lets every authenticated user through
AnyUser(doc, u) == u \in Users

\* conversation.participants.includes(userId)
IsParticipant(doc, u) == u \in Range(doc.participants)

\* the head of a per-user list, whoever it is for
FirstEntry(list, u) == IF list = <<>> THEN 0 ELSE 1

\* the first entry of a per-user list for u: Array.prototype.find
FindEntry(list, u) ==
  LET hits == {i \in DOMAIN list : list[i].user = u}
  IN IF hits = {} THEN 0 ELSE CHOOSE i \in hits : \A j \in hits : i <= j

GetUnreadCount(doc, u) ==
  LET i == FindEntry(doc.unreadCount, u)
  IN IF i = 0 THEN 0 ELSE doc.unreadCount[i].val

\* the first participant that is not u, 0 when there is none
GetOtherParticipant(doc, u) ==
  LET hits == {i \in DOMAIN doc.participants : doc.participants[i] # u}
  IN IF hits = {} THEN 0
     ELSE doc.participants[CHOOSE i \in hits : \A j \in hits : i <= j]

\* conversation.updateLastMessage(messageId): save() writes the two paths set
UpdateLastMessage(k, m, now) ==
  [convs EXCEPT ![k].lastMessage = m, ![k].lastMessageAt = now]

\* ------------------------------------------------------ Message model
\* a content path with neither required nor maxlength
ContentAny(len) == len >= 0

\* content: required for text messages, maxlength 5000
ContentValid(len) == len >= 1 /\ len <= MaxContentLen

\* a message stored under an id read from the command's payload
NewMessageAs(sender, parent, len) ==
  [sender |-> parent.id, conversation |-> parent, content |-> len,
   readBy |-> <<>>, isDeleted |-> FALSE, v |-> 0]

\* createdAt is the insertion order; readBy and isDeleted take their defaults
NewMessage(sender, parent, len) ==
  [sender |-> sender, conversation |-> parent, content |-> len,
   readBy |-> <<>>, isDeleted |-> FALSE, v |-> 0]

\* --------------------------------------------------------- Room model
NewRoom(name, owner, cap, now) ==
  [name |-> name, createdBy |-> owner,
   members |-> <<[user |-> owner, role |-> "owner"]>>,
   maxMembers |-> cap, lastActivity |-> now, v |-> 0]

\* room.isMember(userId)
IsMember(doc, u) == \E i \in DOMAIN doc.members : doc.members[i].user = u

\* a name path without the unique index
NameFree(name) == FALSE

\* the unique index on name
NameTaken(name) == \E r \in DOMAIN rooms : rooms[r].name = name

\* room.updateActivity(): save() writes lastActivity
UpdateActivity(r, now) == [rooms EXCEPT ![r].lastActivity = now]

\* the outcome of a Room model call: the caller, the method, its userId
\* argument, and the error thrown ("" when it saved)
NoRes == [w |-> 0, op |-> "none", user |-> 0, error |-> ""]

Result(w, op, u, err) == [w |-> w, op |-> op, user |-> u, error |-> err]

Init ==
  /\ status = [u \in Users |-> "offline"]
  /\ convs = <<>>
  /\ rooms = <<>>
  /\ messages = <<>>
  /\ clock = 0
  /\ state = [c \in Conns |-> "Unauthenticated"]
  /\ handshake = [c \in Conns |-> NoToken]
  /\ userId = [c \in Conns |-> 0]
  /\ registered = [c \in Conns |-> FALSE]
  /\ subs = [c \in Conns |-> {}]
  /\ pc = [c \in Conns |-> "idle"]
  /\ local = [c \in Conns |-> NoLocal]
  /\ off = [c \in Conns |-> "none"]
  /\ out = NoOut
  /\ emitted = NoEvent
  /\ wpc = [w \in Workers |-> "idle"]
  /\ wdoc = [w \in Workers |-> <<>>]
  /\ wres = NoRes

\* ------------------------------------------------------------ gateway
\* io.to(channel): the connected sockets that joined the channel
Subscribers(ch) == {d \in Conns : state[d] = "Authenticated" /\ ch \in subs[d]}

\* socket.to(channel): those but the sending socket
SubscribersBut(c, ch) == Subscribers(ch) \ {c}

\* socket.broadcast: every connected socket but the sender
Others(c) == {d \in Conns : state[d] = "Authenticated" /\ d # c}

\* a token that is present and verifies
TokenOk(token) == token.kind = "valid"

\* io.use: the token is present, verifies, and names a stored user
AuthOk(token) == token.kind = "valid" /\ token.id \in Users

\* the authentication middleware, up to next()
Connect(c, token) ==
  /\ state[c] = "Unauthenticated"
  /\ handshake' = [handshake EXCEPT ![c] = token]
  /\ IF AuthOk(token)
     THEN /\ state' = [state EXCEPT ![c] = "Authenticated"]
          /\ userId' = [userId EXCEPT ![c] = token.id]
          /\ pc' = [pc EXCEPT ![c] = "conn_online"]
     ELSE /\ state' = [state EXCEPT ![c] = "Rejected"]
          /\ UNCHANGED <<userId, pc>>
  /\ out' = NoOut
  /\ emitted' = NoEvent
  /\ UNCHANGED <<storeVars, registered, subs, local, off, workerVars>>

\* io.on("connection"): the status update, then broadcast, join, handlers
ConnOnline(c) ==
  /\ pc[c] = "conn_online"
  /\ status' = [status EXCEPT ![userId[c]] = "online"]
  /\ emitted' = Event("user:online", userId[c], c, Others(c))
  /\ subs' = [subs EXCEPT ![c] = @ \cup {Chan("user", userId[c])}]
  /\ registered' = [registered EXCEPT ![c] = TRUE]
  /\ pc' = [pc EXCEPT ![c] = "idle"]
  /\ out' = NoOut
  /\ UNCHANGED <<convs, rooms, messages, clock, state, handshake, userId, local,
                 off, workerVars>>

\* a command can be dispatched: handlers registered, socket open, none running
Ready(c) == state[c] = "Authenticated" /\ registered[c] /\ pc[c] = "idle"

\* conversation:start, up to the findOne of findOrCreate
ConversationStart(c, otherUserId) ==
  /\ Ready(c)
  /\ LET k == FindOneConv(SortPair(userId[c], otherUserId))
     IN /\ local' = [local EXCEPT ![c] =
                       [Frame("conversation:start") EXCEPT
                          !.otherUserId = otherUserId, !.conversationId = k]]
        /\ pc' = [pc EXCEPT ![c] = IF k = 0 THEN "start_create" ELSE "start_msgs"]
  /\ out' = NoOut
  /\ emitted' = NoEvent
  /\ UNCHANGED <<storeVars, state, handshake, userId, registered, subs, off,
                 workerVars>>

\* findOrCreate: this.create({ participants })
StartCreate(c) ==
  /\ pc[c] = "start_create"
  /\ Len(convs) < MaxConvs
  /\ clock' = clock + 1
  /\ convs' = Append(convs,
                     NewConversation(SortPair(userId[c], local[c].otherUserId),
                                     clock + 1))
  /\ local' = [local EXCEPT ![c].conversationId = Len(convs) + 1]
  /\ pc' = [pc EXCEPT ![c] = "start_msgs"]
  /\ out' = NoOut
  /\ emitted' = NoEvent
  /\ UNCHANGED <<status, rooms, messages, state, handshake, userId, registered,
                 subs, off, workerVars>>

\* conversation:start: Message.find, then socket.join and the callback
StartMsgs(c) ==
  /\ pc[c] = "start_msgs"
  /\ LET k == local[c].conversationId
     IN /\ subs' = [subs EXCEPT ![c] = @ \cup {Chan("conversation", k)}]
        /\ out' = Success(c, "conversation:start", local[c].otherUserId, k)
  /\ local' = [local EXCEPT ![c] = NoLocal]
  /\ pc' = [pc EXCEPT ![c] = "idle"]
  /\ emitted' = NoEvent
  /\ UNCHANGED <<storeVars, state, handshake, userId, registered, off, workerVars>>

\* message:send:conversation, up to findById and the participant test
SendConv(c, k, len) ==
  /\ Ready(c)
  /\ IF k \notin DOMAIN convs
     THEN \* conversation is null: the TypeError is caught
          /\ out' = Failure(c, "message:send:conversation", k, "TypeError")
          /\ UNCHANGED <<pc, local>>
     ELSE IF ~IsParticipant(convs[k], userId[c])
     THEN /\ out' = Failure(c, "message:send:conversation", k, "Not authorized")
          /\ UNCHANGED <<pc, local>>
     ELSE /\ local' = [local EXCEPT ![c] =
                         [Frame("message:send:conversation") EXCEPT
                            !.conversationId = k, !.content = len]]
          /\ pc' = [pc EXCEPT ![c] = "send_conv_create"]
          /\ out' = NoOut
  /\ emitted' = NoEvent
  /\ UNCHANGED <<storeVars, state, handshake, userId, registered, subs, off,
                 workerVars>>

\* Message.create of either send handler: validation, then the insert
MessageCreate(c, kind, req, parent, next) ==
  /\ IF ~ContentValid(local[c].content)
     THEN /\ out' = Failure(c, kind, req, "ValidationError")
          /\ pc' = [pc EXCEPT ![c] = "idle"]
          /\ local' = [local EXCEPT ![c] = NoLocal]
          /\ UNCHANGED messages
     ELSE /\ Len(messages) < MaxMsgs
          /\ messages' = Append(messages,
                                NewMessage(userId[c], parent, local[c].content))
          /\ local' = [local EXCEPT ![c].message = Len(messages) + 1]
          /\ pc' = [pc EXCEPT ![c] = next]
          /\ out' = NoOut
  /\ emitted' = NoEvent
  /\ UNCHANGED <<status, convs, rooms, clock, state, handshake, userId,
                 registered, subs, off, workerVars>>

SendConvCreate(c) ==
  /\ pc[c] = "send_conv_create"
  /\ MessageCreate(c, "message:send:conversation", local[c].conversationId,
                   Chan("conversation", local[c].conversationId),
                   "send_conv_update")

\* socket.to(channel).emit: the sending connection is left out
EmitMessageNewToOthers(c, ch, m) ==
  Event("message:new", m, c, SubscribersBut(c, ch))

\* io.to(channel).emit("message:new", { message })
EmitMessageNew(c, ch, m) == Event("message:new", m, c, Subscribers(ch))

\* message:send:conversation: updateLastMessage, the emit and the callback
SendConvUpdate(c) ==
  /\ pc[c] = "send_conv_update"
  /\ LET k == local[c].conversationId
         m == local[c].message
     IN /\ clock' = clock + 1
        /\ convs' = UpdateLastMessage(k, m, clock + 1)
        /\ emitted' = EmitMessageNew(c, Chan("conversation", k), m)
        /\ out' = Success(c, "message:send:conversation", k, m)
  /\ local' = [local EXCEPT ![c] = NoLocal]
  /\ pc' = [pc EXCEPT ![c] = "idle"]
  /\ UNCHANGED <<status, rooms, messages, state, handshake, userId, registered,
                 subs, off, workerVars>>

\* conversation:list: find({ participants: userId }).sort({ lastMessageAt: -1 })
RECURSIVE SortByActivity(_)
SortByActivity(ids) ==
  IF ids = {} THEN <<>>
  ELSE LET k == CHOOSE i \in ids :
                  \A j \in ids :
                    \/ convs[i].lastMessageAt > convs[j].lastMessageAt
                    \/ convs[i].lastMessageAt = convs[j].lastMessageAt /\ i <= j
       IN <<k>> \o SortByActivity(ids \ {k})

\* the listed conversations, lastMessage populated
ListedConversations(u) ==
  LET ids == SortByActivity({k \in DOMAIN convs : IsParticipant(convs[k], u)})
  IN [i \in DOMAIN ids |->
        [id |-> ids[i], lastMessage |-> convs[ids[i]].lastMessage]]

ConversationList(c) ==
  /\ Ready(c)
  /\ out' = [Success(c, "conversation:list", 0, 0) EXCEPT
               !.list = ListedConversations(userId[c])]
  /\ emitted' = NoEvent
  /\ UNCHANGED <<storeVars, state, handshake, userId, registered, subs, pc, local,
                 off, workerVars>>

\* room:create: Room.create, then socket.join and the callback
RoomCreate(c, name) ==
  /\ Ready(c)
  /\ IF NameTaken(name)
     THEN /\ out' = Failure(c, "room:create", 0, "E11000")
          /\ UNCHANGED <<rooms, clock, subs>>
     ELSE /\ Len(rooms) < MaxRooms
          /\ clock' = clock + 1
          /\ rooms' = Append(rooms,
                             NewRoom(name, userId[c], DefaultMaxMembers, clock + 1))
          /\ subs' = [subs EXCEPT ![c] = @ \cup {Chan("room", Len(rooms) + 1)}]
          /\ out' = Success(c, "room:create", 0, Len(rooms) + 1)
  /\ emitted' = NoEvent
  /\ UNCHANGED <<status, convs, messages, state, handshake, userId, registered,
                 pc, local, off, workerVars>>

\* room:join, up to findById and the member test; a member joins the channel
RoomJoin(c, r) ==
  /\ Ready(c)
  /\ IF r \notin DOMAIN rooms \/ ~IsMember(rooms[r], userId[c])
     THEN /\ out' = Failure(c, "room:join", r, "Not authorized")
          /\ UNCHANGED <<pc, local, subs>>
     ELSE /\ subs' = [subs EXCEPT ![c] = @ \cup {Chan("room", r)}]
          /\ local' = [local EXCEPT ![c] = [Frame("room:join") EXCEPT !.roomId = r]]
          /\ pc' = [pc EXCEPT ![c] = "join_msgs"]
          /\ out' = NoOut
  /\ emitted' = NoEvent
  /\ UNCHANGED <<storeVars, state, handshake, userId, registered, off, workerVars>>

\* room:join: Message.find and the callback
RoomJoinMsgs(c) ==
  /\ pc[c] = "join_msgs"
  /\ out' = Success(c, "room:join", local[c].roomId, local[c].roomId)
  /\ local' = [local EXCEPT ![c] = NoLocal]
  /\ pc' = [pc EXCEPT ![c] = "idle"]
  /\ emitted' = NoEvent
  /\ UNCHANGED <<storeVars, state, handshake, userId, registered, subs, off,
                 workerVars>>

\* message:send:room, up to findById and the member test
SendRoom(c, r, len) ==
  /\ Ready(c)
  /\ IF r \notin DOMAIN rooms \/ ~IsMember(rooms[r], userId[c])
     THEN /\ out' = Failure(c, "message:send:room", r, "Not authorized")
          /\ UNCHANGED <<pc, local>>
     ELSE /\ local' = [local EXCEPT ![c] =
                         [Frame("message:send:room") EXCEPT
                            !.roomId = r, !.content = len]]
          /\ pc' = [pc EXCEPT ![c] = "send_room_create"]
          /\ out' = NoOut
  /\ emitted' = NoEvent
  /\ UNCHANGED <<storeVars, state, handshake, userId, registered, subs, off,
                 workerVars>>

SendRoomCreate(c) ==
  /\ pc[c] = "send_room_create"
  /\ MessageCreate(c, "message:send:room", local[c].roomId,
                   Chan("room", local[c].roomId), "send_room_update")

\* message:send:room: updateActivity, the emit and the callback
SendRoomUpdate(c) ==
  /\ pc[c] = "send_room_update"
  /\ LET r == local[c].roomId
         m == local[c].message
     IN /\ clock' = clock + 1
        /\ rooms' = UpdateActivity(r, clock + 1)
        /\ emitted' = EmitMessageNew(c, Chan("room", r), m)
        /\ out' = Success(c, "message:send:room", r, m)
  /\ local' = [local EXCEPT ![c] = NoLocal]
  /\ pc' = [pc EXCEPT ![c] = "idle"]
  /\ UNCHANGED <<status, convs, messages, state, handshake, userId, registered,
                 subs, off, workerVars>>

\* the channel a typing command names: the conversation's when conversationId
\* is given, else the room's when roomId is given (0: not given)
TypingChannel(conversationId, roomId) ==
  IF conversationId # 0 THEN Chan("conversation", conversationId)
  ELSE IF roomId # 0 THEN Chan("room", roomId)
  ELSE Chan("none", 0)

\* io.to(channel): every socket of the channel, the sender's included
TypingReceiversAll(c, ch) == Subscribers(ch)

\* socket.to(channel)
TypingReceivers(c, ch) == SubscribersBut(c, ch)

\* the typing event emitted, with the payload of the command beside it
TypingEvent(type, c, conversationId, roomId) ==
  [type |-> type, id |-> userId[c], from |-> c,
   to |-> TypingReceivers(c, TypingChannel(conversationId, roomId)),
   conversationId |-> conversationId, roomId |-> roomId]

\* typing:start and typing:stop: synchronous, no callback
Typing(c, type, conversationId, roomId) ==
  /\ state[c] = "Authenticated" /\ registered[c]
  /\ emitted' = IF conversationId # 0 \/ roomId # 0
                THEN TypingEvent(type, c, conversationId, roomId)
                ELSE NoEvent
  /\ out' = NoOut
  /\ UNCHANGED <<storeVars, state, handshake, userId, registered, subs, pc, local,
                 off, workerVars>>

TypingStart(c, conversationId, roomId) ==
  Typing(c, "typing:start", conversationId, roomId)

TypingStop(c, conversationId, roomId) ==
  Typing(c, "typing:stop", conversationId, roomId)

\* the transport closes: the socket leaves its channels, "disconnect" fires
Disconnect(c) ==
  /\ state[c] = "Authenticated"
  /\ state' = [state EXCEPT ![c] = "Closed"]
  /\ subs' = [subs EXCEPT ![c] = {}]
  /\ off' = [off EXCEPT ![c] = IF registered[c] THEN "pending" ELSE "none"]
  /\ out' = NoOut
  /\ emitted' = NoEvent
  /\ UNCHANGED <<storeVars, handshake, userId, registered, pc, local, workerVars>>

\* the disconnect handler: the status update, then the broadcast
DisconnectUpdate(c) ==
  /\ off[c] = "pending"
  /\ status' = [status EXCEPT ![userId[c]] = "offline"]
  /\ emitted' = Event("user:offline", userId[c], c, Others(c))
  /\ off' = [off EXCEPT ![c] = "done"]
  /\ out' = NoOut
  /\ UNCHANGED <<convs, rooms, messages, clock, state, handshake, userId,
                 registered, subs, pc, local, workerVars>>

ConnectStep(c) ==
  \/ \E t \in Tokens : Connect(c, t)
  \/ ConnOnline(c)

StartStep(c) ==
  \/ \E o \in Users : ConversationStart(c, o)
  \/ StartCreate(c)
  \/ StartMsgs(c)

SendConvStep(c) ==
  \/ \E k \in ConvIds, len \in ContentLens : SendConv(c, k, len)
  \/ SendConvCreate(c)
  \/ SendConvUpdate(c)

RoomStep(c) ==
  \/ \E n \in RoomNames : RoomCreate(c, n)
  \/ \E r \in RoomIds : RoomJoin(c, r)
  \/ RoomJoinMsgs(c)

SendRoomStep(c) ==
  \/ \E r \in RoomIds, len \in ContentLens : SendRoom(c, r, len)
  \/ SendRoomCreate(c)
  \/ SendRoomUpdate(c)

CloseStep(c) ==
  \/ Disconnect(c)
  \/ DisconnectUpdate(c)

\* the gateway: every handler of every connection, interleaved at the awaits
Next ==
  \E c \in Conns :
    \/ ConnectStep(c)
    \/ StartStep(c)
    \/ SendConvStep(c)
    \/ ConversationList(c)
    \/ RoomStep(c)
    \/ SendRoomStep(c)
    \/ CloseStep(c)

Spec == Init /\ [][Next]_vars

\* no handler of another connection is between two of its awaits
Quiet(c) == \A d \in Conns \ {c} : pc[d] = "idle" /\ off[d] # "pending"

\* conversations only, the handlers of different connections never overlapping
NextSeq ==
  \E c \in Conns :
    \/ \E t \in Tokens : Quiet(c) /\ Connect(c, t)
    \/ Quiet(c) /\ ConnOnline(c)
    \/ \E o \in Users : Quiet(c) /\ ConversationStart(c, o)
    \/ Quiet(c) /\ StartCreate(c)
    \/ Quiet(c) /\ StartMsgs(c)
    \/ \E k \in ConvIds, len \in ContentLens : Quiet(c) /\ SendConv(c, k, len)
    \/ Quiet(c) /\ SendConvCreate(c)
    \/ Quiet(c) /\ SendConvUpdate(c)
    \/ Quiet(c) /\ ConversationList(c)

SpecSeq == Init /\ [][NextSeq]_vars

\* concurrent conversation:start requests
NextStart == \E c \in Conns : ConnectStep(c) \/ StartStep(c)

SpecStart == Init /\ [][NextStart]_vars

\* the handshake, the presence updates and one command
NextAuth ==
  \E c \in Conns :
    \/ ConnectStep(c)
    \/ CloseStep(c)
    \/ \E n \in RoomNames : RoomCreate(c, n)

SpecAuth == Init /\ [][NextAuth]_vars

\* concurrent send-message requests, the transport closing at any time; a run
\* uses conversations or rooms, not both
NextSend ==
  \E c \in Conns :
    \/ ConnectStep(c)
    \/ \E o \in Users : rooms = <<>> /\ ConversationStart(c, o)
    \/ rooms = <<>> /\ StartCreate(c)
    \/ rooms = <<>> /\ StartMsgs(c)
    \/ \E k \in ConvIds, len \in ContentLens : rooms = <<>> /\ SendConv(c, k, len)
    \/ rooms = <<>> /\ SendConvCreate(c)
    \/ rooms = <<>> /\ SendConvUpdate(c)
    \/ \E n \in RoomNames : convs = <<>> /\ RoomCreate(c, n)
    \/ \E r \in RoomIds : convs = <<>> /\ RoomJoin(c, r)
    \/ convs = <<>> /\ RoomJoinMsgs(c)
    \/ \E r \in RoomIds, len \in ContentLens : convs = <<>> /\ SendRoom(c, r, len)
    \/ convs = <<>> /\ SendRoomCreate(c)
    \/ convs = <<>> /\ SendRoomUpdate(c)
    \/ Disconnect(c)

SpecSend == Init /\ [][NextSend]_vars

\* typing indicators among the subscribers of a channel; a run uses
\* conversations or one room, not both
NextTyping ==
  \E c \in Conns :
    \/ ConnectStep(c)
    \/ \E o \in Users : rooms = <<>> /\ ConversationStart(c, o)
    \/ rooms = <<>> /\ StartCreate(c)
    \/ rooms = <<>> /\ StartMsgs(c)
    \/ \E n \in RoomNames : convs = <<>> /\ rooms = <<>> /\ RoomCreate(c, n)
    \/ \E r \in RoomIds : convs = <<>> /\ RoomJoin(c, r)
    \/ convs = <<>> /\ RoomJoinMsgs(c)
    \/ \E k \in 0..MaxConvs, r \in 0..MaxRooms : TypingStart(c, k, r)
    \/ \E k \in 0..MaxConvs, r \in 0..MaxRooms : TypingStop(c, k, r)
    \/ Disconnect(c)

SpecTyping == Init /\ [][NextTyping]_vars

\* ------------------------------------------- callers of the Room model
\* A caller loads a room document (findById) and calls one method on it.  The
\* method checks and changes the loaded document; save() then sends the change:
\* a push as $push (no version test, the version incremented), a replaced
\* array as $set guarded by the version read and incrementing it, a changed
\* element as a positional $set guarded by the version read.
NoDoc == [id |-> 0, doc |-> <<>>]

\* Room.create({ name, createdBy, members: [owner], maxMembers })
WCreate(w, name, owner, cap) ==
  /\ wpc[w] = "idle"
  /\ IF NameTaken(name)
     THEN /\ wres' = Result(w, "create", owner, "E11000")
          /\ UNCHANGED <<rooms, clock>>
     ELSE /\ Len(rooms) < MaxRooms
          /\ clock' = clock + 1
          /\ rooms' = Append(rooms, NewRoom(name, owner, cap, clock + 1))
          /\ wres' = Result(w, "create", owner, "")
  /\ UNCHANGED <<status, convs, messages, gatewayVars, wpc, wdoc>>

\* Room.findById(roomId)
WLoad(w, r) ==
  /\ wpc[w] = "idle"
  /\ r \in DOMAIN rooms
  /\ wdoc' = [wdoc EXCEPT ![w] = [id |-> r, doc |-> rooms[r]]]
  /\ wpc' = [wpc EXCEPT ![w] = "loaded"]
  /\ wres' = NoRes
  /\ UNCHANGED <<storeVars, gatewayVars>>

\* addMember with the capacity test before the member test
AddMemberErrorCapacityFirst(doc, u) ==
  IF Len(doc.members) >= doc.maxMembers THEN "capacity"
  ELSE IF IsMember(doc, u) THEN "already"
  ELSE ""

\* addMember with > for >= in the capacity test
AddMemberErrorOffByOne(doc, u) ==
  IF IsMember(doc, u) THEN "already"
  ELSE IF Len(doc.members) > doc.maxMembers THEN "capacity"
  ELSE ""

\* addMember without the member test
AddMemberErrorNoMemberTest(doc, u) ==
  IF Len(doc.members) >= doc.maxMembers THEN "capacity" ELSE ""

\* addMember: the error it throws, "" when it pushes
AddMemberError(doc, u) ==
  IF IsMember(doc, u) THEN "already"
  ELSE IF Len(doc.members) >= doc.maxMembers THEN "capacity"
  ELSE ""

\* the caller has made its call: it drops the document
Return(w, res) ==
  /\ wres' = res
  /\ wpc' = [wpc EXCEPT ![w] = "idle"]
  /\ wdoc' = [wdoc EXCEPT ![w] = NoDoc]

\* room.addMember(userId, role)
WAddMember(w, u, role) ==
  /\ wpc[w] = "loaded"
  /\ LET r == wdoc[w].id
         err == AddMemberError(wdoc[w].doc, u)
     IN /\ IF err # ""
           THEN UNCHANGED rooms
           ELSE /\ rooms[r].v < MaxVersion
                /\ rooms' = [rooms EXCEPT
                               ![r].members = Append(@, [user |-> u, role |-> role]),
                               ![r].v = @ + 1]
        /\ Return(w, Result(w, "addMember", u, err))
  /\ UNCHANGED <<status, convs, messages, clock, gatewayVars>>

\* members.filter(m => m.user !== userId)
WithoutMember(members, u) == SelectSeq(members, LAMBDA m : m.user # u)

\* room.removeMember(userId)
WRemoveMember(w, u) ==
  /\ wpc[w] = "loaded"
  /\ LET r == wdoc[w].id
         doc == wdoc[w].doc
         kept == WithoutMember(doc.members, u)
     IN IF kept = doc.members
        THEN \* nothing modified, nothing written
             /\ Return(w, Result(w, "removeMember", u, ""))
             /\ UNCHANGED rooms
        ELSE IF rooms[r].v # doc.v
        THEN /\ Return(w, Result(w, "removeMember", u, "VersionError"))
             /\ UNCHANGED rooms
        ELSE /\ rooms[r].v < MaxVersion
             /\ rooms' = [rooms EXCEPT ![r].members = kept, ![r].v = @ + 1]
             /\ Return(w, Result(w, "removeMember", u, ""))
  /\ UNCHANGED <<status, convs, messages, clock, gatewayVars>>

\* members.find(m => m.user === userId), as an index; 0 when absent
MemberIndex(members, u) ==
  LET hits == {i \in DOMAIN members : members[i].user = u}
  IN IF hits = {} THEN 0 ELSE CHOOSE i \in hits : \A j \in hits : i <= j

\* room.updateMemberRole(userId, newRole)
WUpdateMemberRole(w, u, role) ==
  /\ wpc[w] = "loaded"
  /\ LET r == wdoc[w].id
         doc == wdoc[w].doc
         i == MemberIndex(doc.members, u)
     IN IF i = 0
        THEN /\ Return(w, Result(w, "updateMemberRole", u, "not a member"))
             /\ UNCHANGED rooms
        ELSE IF doc.members[i].role = role
        THEN /\ Return(w, Result(w, "updateMemberRole", u, ""))
             /\ UNCHANGED rooms
        ELSE IF rooms[r].v # doc.v
        THEN /\ Return(w, Result(w, "updateMemberRole", u, "VersionError"))
             /\ UNCHANGED rooms
        ELSE /\ rooms' = [rooms EXCEPT ![r].members[i].role = role]
             /\ Return(w, Result(w, "updateMemberRole", u, ""))
  /\ UNCHANGED <<status, convs, messages, clock, gatewayVars>>

\* concurrent callers of the Room model, on one room
NextRoom ==
  \E w \in Workers :
    \/ \E n \in RoomNames, o \in Users, cap \in MinMaxMembers..MaxCap :
         rooms = <<>> /\ WCreate(w, n, o, cap)
    \/ \E r \in RoomIds : WLoad(w, r)
    \/ \E u \in Ids : WAddMember(w, u, "member")
    \/ \E u \in Ids : WRemoveMember(w, u)
    \/ \E u \in Ids, role \in {"admin", "member"} : WUpdateMemberRole(w, u, role)

SpecRoom == Init /\ [][NextRoom]_vars

\* ---------------------------------------- callers of the Message model
\* A caller loads a message (findById) and calls one method on it; save()
\* sends what the method changed: a push onto readBy as $push (no version
\* test, the version incremented), a scalar path as $set.
\* Message.create({ sender, conversation, content })
MCreate(w, sender, parent, len) ==
  /\ wpc[w] = "idle"
  /\ IF ~ContentValid(len)
     THEN /\ wres' = Result(w, "create", sender, "ValidationError")
          /\ UNCHANGED messages
     ELSE /\ Len(messages) < MaxMsgs
          /\ messages' = Append(messages, NewMessage(sender, parent, len))
          /\ wres' = Result(w, "create", sender, "")
  /\ UNCHANGED <<status, convs, rooms, clock, gatewayVars, wpc, wdoc>>

\* Message.findById(id)
MLoad(w, m) ==
  /\ wpc[w] = "idle"
  /\ m \in DOMAIN messages
  /\ wdoc' = [wdoc EXCEPT ![w] = [id |-> m, doc |-> messages[m]]]
  /\ wpc' = [wpc EXCEPT ![w] = "loaded"]
  /\ wres' = NoRes
  /\ UNCHANGED <<storeVars, gatewayVars>>

\* readBy.some(read => read.user === userId)
AlreadyRead(doc, u) == \E i \in DOMAIN doc.readBy : doc.readBy[i].user = u

\* message.markAsRead(userId)
MMarkAsRead(w, u) ==
  /\ wpc[w] = "loaded"
  /\ LET m == wdoc[w].id
     IN IF AlreadyRead(wdoc[w].doc, u)
        THEN UNCHANGED <<messages, clock>>
        ELSE /\ messages[m].v < MaxVersion
             /\ clock' = clock + 1
             /\ messages' = [messages EXCEPT
                               ![m].readBy = Append(@, [user |-> u,
                                                        readAt |-> clock + 1]),
                               ![m].v = @ + 1]
  /\ Return(w, Result(w, "markAsRead", u, ""))
  /\ UNCHANGED <<status, convs, rooms, gatewayVars>>

\* message.softDelete()
MSoftDelete(w) ==
  /\ wpc[w] = "loaded"
  /\ messages' = [messages EXCEPT ![wdoc[w].id].isDeleted = TRUE,
                                  ![wdoc[w].id].content = TombstoneLen]
  /\ Return(w, Result(w, "softDelete", 0, ""))
  /\ UNCHANGED <<status, convs, rooms, clock, gatewayVars>>

\* message.editMessage(newContent): save() validates the new content
MEditMessage(w, len) ==
  /\ wpc[w] = "loaded"
  /\ IF ~ContentValid(len)
     THEN /\ Return(w, Result(w, "editMessage", 0, "ValidationError"))
          /\ UNCHANGED messages
     ELSE /\ messages' = [messages EXCEPT ![wdoc[w].id].content = len]
          /\ Return(w, Result(w, "editMessage", 0, ""))
  /\ UNCHANGED <<status, convs, rooms, clock, gatewayVars>>

\* the filter { conversation: conversationId }
InParent(doc, parent) == doc.conversation = parent

\* the filter { conversation: conversationId, isDeleted: false }
Recent(doc, parent) == doc.conversation = parent /\ ~doc.isDeleted

\* sort({ createdAt: -1 }): the ids, newest first
RECURSIVE NewestFirst(_)
NewestFirst(ids) ==
  IF ids = {} THEN <<>>
  ELSE LET m == CHOOSE i \in ids : \A j \in ids : j <= i
       IN <<m>> \o NewestFirst(ids \ {m})

\* limit(n)
Limit(list, n) == IF Len(list) <= n THEN list ELSE SubSeq(list, 1, n)

\* Message.getRecentMessages(conversationId), limit = 50
GetRecentMessages(parent) ==
  Limit(NewestFirst({m \in DOMAIN messages : Recent(messages[m], parent)}),
        RecentLimit)

\* the outcome of a query: its argument and the ids returned
QueryResult(w, op, parent, list) ==
  [w |-> w, op |-> op, user |-> 0, error |-> "", parent |-> parent, list |-> list]

MGetRecentMessages(w, parent) ==
  /\ wpc[w] = "idle"
  /\ wres' = QueryResult(w, "getRecentMessages", parent, GetRecentMessages(parent))
  /\ UNCHANGED <<storeVars, gatewayVars, wpc, wdoc>>

\* the conversations and rooms a message can name as its parent
Parents == {Chan("conversation", k) : k \in ConvIds}

\* concurrent markAsRead calls
NextRead ==
  \E w \in Workers :
    \/ \E u \in Users, p \in Parents, len \in ContentLens : MCreate(w, u, p, len)
    \/ \E m \in 1..MaxMsgs : MLoad(w, m)
    \/ \E u \in Users : MMarkAsRead(w, u)

SpecRead == Init /\ [][NextRead]_vars

\* soft deletion, edits and the recent-messages query
NextDelete ==
  \E w \in Workers :
    \/ \E u \in Users, p \in Parents, len \in ContentLens : MCreate(w, u, p, len)
    \/ \E m \in 1..MaxMsgs : MLoad(w, m)
    \/ MSoftDelete(w)
    \/ \E len \in ContentLens : MEditMessage(w, len)
    \/ \E p \in Parents : MGetRecentMessages(w, p)

SpecDelete == Init /\ [][NextDelete]_vars

\* ----------------------------------- callers of the Conversation model
\* A caller loads a conversation (findById) and calls one method on it.  A
\* method that changes an entry of a per-user list is saved as a positional
\* $set guarded by the version read; one that pushes a new entry is saved as
\* a $push that increments the version; one that changes nothing writes
\* nothing.
\* Conversation.create({ participants }), as findOrCreate calls it
CCreate(w, a, b) ==
  /\ wpc[w] = "idle"
  /\ Len(convs) < MaxConvs
  /\ clock' = clock + 1
  /\ convs' = Append(convs, NewConversation(SortPair(a, b), clock + 1))
  /\ wres' = Result(w, "create", a, "")
  /\ UNCHANGED <<status, rooms, messages, gatewayVars, wpc, wdoc>>

\* Conversation.findById(id)
CLoad(w, k) ==
  /\ wpc[w] = "idle"
  /\ k \in DOMAIN convs
  /\ wdoc' = [wdoc EXCEPT ![w] = [id |-> k, doc |-> convs[k]]]
  /\ wpc' = [wpc EXCEPT ![w] = "loaded"]
  /\ wres' = NoRes
  /\ UNCHANGED <<storeVars, gatewayVars>>

\* save() after a method set list[i].val to val on the loaded document, or
\* pushed [u, val] when the document had no entry for u (i = 0)
SavePerUser(w, op, field, u, i, val, push) ==
  LET k == wdoc[w].id
      doc == wdoc[w].doc
  IN IF i = 0
     THEN IF push
          THEN /\ convs[k].v < MaxVersion
               /\ convs' = [convs EXCEPT
                              ![k][field] = Append(@, [user |-> u, val |-> val]),
                              ![k].v = @ + 1]
               /\ Return(w, Result(w, op, u, ""))
          ELSE /\ UNCHANGED convs
               /\ Return(w, Result(w, op, u, ""))
     ELSE IF doc[field][i].val = val
     THEN /\ UNCHANGED convs
          /\ Return(w, Result(w, op, u, ""))
     ELSE IF convs[k].v # doc.v
     THEN /\ UNCHANGED convs
          /\ Return(w, Result(w, op, u, "VersionError"))
     ELSE /\ convs' = [convs EXCEPT ![k][field][i].val = val]
          /\ Return(w, Result(w, op, u, ""))

\* a count that resetUnread leaves as it is
KeptCount(count) == count

\* unread.count = 0
ResetCount(count) == 0

\* conversation.incrementUnread(userId)
CIncrementUnread(w, u) ==
  /\ wpc[w] = "loaded"
  /\ LET i == FindEntry(wdoc[w].doc.unreadCount, u)
         val == IF i = 0 THEN 1 ELSE wdoc[w].doc.unreadCount[i].val + 1
     IN /\ val <= MaxUnread
        /\ SavePerUser(w, "incrementUnread", "unreadCount", u, i, val, TRUE)
  /\ UNCHANGED <<status, rooms, messages, clock, gatewayVars>>

\* conversation.resetUnread(userId)
CResetUnread(w, u) ==
  /\ wpc[w] = "loaded"
  /\ LET i == FindEntry(wdoc[w].doc.unreadCount, u)
         val == IF i = 0 THEN 0 ELSE ResetCount(wdoc[w].doc.unreadCount[i].val)
     IN SavePerUser(w, "resetUnread", "unreadCount", u, i, val, FALSE)
  /\ UNCHANGED <<status, rooms, messages, clock, gatewayVars>>

\* conversation.archiveForUser(userId, archive)
CArchiveForUser(w, u, archive) ==
  /\ wpc[w] = "loaded"
  /\ SavePerUser(w, "archiveForUser", "isArchived", u,
                 FindEntry(wdoc[w].doc.isArchived, u), archive, TRUE)
  /\ UNCHANGED <<status, rooms, messages, clock, gatewayVars>>

\* conversation.pinForUser(userId, pin)
CPinForUser(w, u, pin) ==
  /\ wpc[w] = "loaded"
  /\ SavePerUser(w, "pinForUser", "isPinned", u,
                 FindEntry(wdoc[w].doc.isPinned, u), pin, TRUE)
  /\ UNCHANGED <<status, rooms, messages, clock, gatewayVars>>

\* conversation.isArchivedForUser(userId)
IsArchivedForUser(doc, u) ==
  LET i == FindEntry(doc.isArchived, u)
  IN IF i = 0 THEN FALSE ELSE doc.isArchived[i].val

\* conversation.isPinnedForUser(userId)
IsPinnedForUser(doc, u) ==
  LET i == FindEntry(doc.isPinned, u)
  IN IF i = 0 THEN FALSE ELSE doc.isPinned[i].val

\* Array.prototype.sort with the pinned-first comparator: stable, so the
\* pinned keep their order and the others keep theirs
PinnedFirst(ids, u) ==
  SelectSeq(ids, LAMBDA k : IsPinnedForUser(convs[k], u))
    \o SelectSeq(ids, LAMBDA k : ~IsPinnedForUser(convs[k], u))

\* Conversation.getUserConversations(userId, includeArchived)
GetUserConversations(u, includeArchived) ==
  LET found == SortByActivity({k \in DOMAIN convs : IsParticipant(convs[k], u)})
      kept == SelectSeq(found, LAMBDA k : includeArchived
                                            \/ ~IsArchivedForUser(convs[k], u))
  IN PinnedFirst(kept, u)

CGetUserConversations(w, u, includeArchived) ==
  /\ wpc[w] = "idle"
  /\ wres' = [QueryResult(w, "getUserConversations", 0,
                          GetUserConversations(u, includeArchived))
                EXCEPT !.user = u, !.error = IF includeArchived THEN "all" ELSE ""]
  /\ UNCHANGED <<storeVars, gatewayVars, wpc, wdoc>>

\* concurrent callers of the unread counters of one conversation
NextUnread ==
  \E w \in Workers :
    \/ \E a, b \in Users : convs = <<>> /\ CCreate(w, a, b)
    \/ \E k \in ConvIds : CLoad(w, k)
    \/ \E u \in Users : CIncrementUnread(w, u)
    \/ \E u \in Users : CResetUnread(w, u)

SpecUnread == Init /\ [][NextUnread]_vars

\* no other caller holds a document
Alone(w) == \A x \in Workers \ {w} : wpc[x] = "idle"

\* no other connection has been opened
OnlyDevice(c) == \A d \in Conns \ {c} : state[d] = "Unauthenticated"

\* the conversation lists: archive, pin and activity changes made one call
\* at a time, the model's query, and the conversation:list command of the one
\* connection open
NextList ==
  \/ \E c \in Conns :
       \/ \E t \in Tokens : t.kind = "valid" /\ OnlyDevice(c) /\ Connect(c, t)
       \/ ConnOnline(c)
       \/ ConversationList(c)
  \/ \E w \in Workers :
       \/ \E a, b \in Users : a # b /\ Alone(w) /\ CCreate(w, a, b)
       \/ \E k \in ConvIds : Alone(w) /\ CLoad(w, k)
       \/ \E u \in Users, archive \in BOOLEAN : CArchiveForUser(w, u, archive)
       \/ \E u \in Users, pin \in BOOLEAN : CPinForUser(w, u, pin)
       \/ \E u \in Users, includeArchived \in BOOLEAN :
            Alone(w) /\ CGetUserConversations(w, u, includeArchived)

SpecList == Init /\ [][NextList]_vars

\* members of one room on their sockets, while other requests add and remove
\* members through the Room model
NextLeave ==
  \/ \E c \in Conns :
       \/ \E t \in Tokens : t.kind = "valid" /\ Connect(c, t)
       \/ ConnOnline(c)
       \/ \E n \in RoomNames : rooms = <<>> /\ RoomCreate(c, n)
       \/ \E r \in RoomIds : RoomJoin(c, r)
       \/ RoomJoinMsgs(c)
       \/ \E r \in RoomIds : messages = <<>> /\ SendRoom(c, r, 2)
       \/ SendRoomCreate(c)
       \/ SendRoomUpdate(c)
  \/ \E w \in Workers :
       \/ \E r \in RoomIds : Alone(w) /\ WLoad(w, r)
       \/ \E u \in Users : WAddMember(w, u, "member")
       \/ \E u \in Users : WRemoveMember(w, u)

SpecLeave == Init /\ [][NextLeave]_vars

\* every command that stores a message or emits under the sender's identity,
\* from connections of either user; a run uses one conversation or one room
NextIdentity ==
  \E c \in Conns :
    \/ ConnectStep(c)
    \/ \E o \in Users : rooms = <<>> /\ convs = <<>> /\ ConversationStart(c, o)
    \/ rooms = <<>> /\ convs = <<>> /\ StartCreate(c)
    \/ rooms = <<>> /\ StartMsgs(c)
    \/ \E k \in ConvIds : rooms = <<>> /\ SendConv(c, k, 2)
    \/ rooms = <<>> /\ SendConvCreate(c)
    \/ rooms = <<>> /\ SendConvUpdate(c)
    \/ \E n \in RoomNames : convs = <<>> /\ rooms = <<>> /\ RoomCreate(c, n)
    \/ \E r \in RoomIds : convs = <<>> /\ SendRoom(c, r, 2)
    \/ convs = <<>> /\ SendRoomCreate(c)
    \/ convs = <<>> /\ SendRoomUpdate(c)
    \/ \E k \in 0..MaxConvs, r \in 0..MaxRooms : TypingStart(c, k, r)
    \/ \E k \in 0..MaxConvs, r \in 0..MaxRooms : TypingStop(c, k, r)
    \/ CloseStep(c)

SpecIdentity == Init /\ [][NextIdentity]_vars

\* callers of the four per-user methods of one conversation, one document
\* loaded at a time
NextPerUser ==
  \E w \in Workers :
    \/ \E a, b \in Users : convs = <<>> /\ CCreate(w, a, b)
    \/ \E k \in ConvIds : Alone(w) /\ CLoad(w, k)
    \/ \E u \in Users : CIncrementUnread(w, u)
    \/ \E u \in Users : CResetUnread(w, u)
    \/ \E u \in Users, archive \in BOOLEAN : CArchiveForUser(w, u, archive)
    \/ \E u \in Users, pin \in BOOLEAN : CPinForUser(w, u, pin)

SpecPerUser == Init /\ [][NextPerUser]_vars

\* ============================================================== claims
\* the users of a conversation, as an unordered pair
PairOf(doc) == Range(doc.participants)

\* the first conversation whose users include a and b, 0 when there is none
RecordFor(a, b) ==
  LET hits == {k \in DOMAIN convs : {a, b} \subseteq PairOf(convs[k])}
  IN IF hits = {} THEN 0 ELSE CHOOSE k \in hits : \A j \in hits : k <= j

StartSucceeded == out.kind = "conversation:start" /\ out.ok

\* C1: when conversation:start requests do not overlap, no two conversations
\* have the same unordered pair of users, and a request by A naming B is
\* answered with the one record of {A, B}, whichever of the two asks; that
\* record stays the pair's record from then on.
C1_State ==
  /\ \A j, k \in DOMAIN convs : j # k => PairOf(convs[j]) # PairOf(convs[k])
  /\ StartSucceeded =>
       /\ out.id \in DOMAIN convs
       /\ out.id = RecordFor(userId[out.conn], out.req)
       /\ out.id = RecordFor(out.req, userId[out.conn])

C1_Step ==
  \A a, b \in Users : RecordFor(a, b) # 0 => RecordFor(a, b)' = RecordFor(a, b)

C1_SameRecord == []C1_State /\ [][C1_Step]_vars

\* user 2 asked for (2, 1) and got record 1, which user 1 had been given too
C1_Witness ==
  /\ StartSucceeded /\ userId[out.conn] = 2 /\ out.req = 1 /\ out.id = 1
  /\ convs[1].participants = <<1, 2>>
  /\ \E c \in Conns : userId[c] = 1 /\ Chan("conversation", 1) \in subs[c]

\* C2: with conversation:start requests interleaved, there is still at most
\* one conversation per pair of users and every request is answered with it.
C2_SingleSurvivor ==
  /\ \A a, b \in Users :
       Cardinality({k \in DOMAIN convs : PairOf(convs[k]) = {a, b}}) <= 1
  /\ StartSucceeded => out.id = RecordFor(userId[out.conn], out.req)

\* the entries of a per-user list that belong to user p
EntriesOf(list, p) == {i \in DOMAIN list : list[i].user = p}

\* C3: every conversation has exactly 2 participants, and unreadCount,
\* isArchived and isPinned each hold exactly one entry for each participant.
C3_PerParticipantEntries ==
  \A k \in DOMAIN convs :
    /\ Len(convs[k].participants) = 2
    /\ \A p \in PairOf(convs[k]) :
         /\ Cardinality(EntriesOf(convs[k].unreadCount, p)) = 1
         /\ Cardinality(EntriesOf(convs[k].isArchived, p)) = 1
         /\ Cardinality(EntriesOf(convs[k].isPinned, p)) = 1

\* the messages of conversation k sent by user u
SentBy(k, u) ==
  {m \in DOMAIN messages :
     messages[m].conversation = Chan("conversation", k) /\ messages[m].sender = u}

\* C4: with requests that do not overlap, once A's send in a conversation
\* with B has succeeded, B's unread count is the number of messages A sent
\* there (one more per send, 1 after the first), A's own count is untouched
\* by A's sends, and B's conversation list shows the message as lastMessage.
C4_UnreadIncremented ==
  (out.kind = "message:send:conversation" /\ out.ok) =>
    LET k == out.req
        a == userId[out.conn]
        b == GetOtherParticipant(convs[k], a)
    IN b # 0 =>
         /\ GetUnreadCount(convs[k], b) = Cardinality(SentBy(k, a))
         /\ GetUnreadCount(convs[k], a) = Cardinality(SentBy(k, b))
         /\ \E i \in DOMAIN ListedConversations(b) :
              ListedConversations(b)[i] = [id |-> k, lastMessage |-> out.id]

\* C4, the part the handler does: the list of B shows the message sent
C4_ListShowsMessage ==
  (out.kind = "message:send:conversation" /\ out.ok) =>
    LET k == out.req
        b == GetOtherParticipant(convs[k], userId[out.conn])
    IN b # 0 =>
         \E i \in DOMAIN ListedConversations(b) :
           ListedConversations(b)[i] = [id |-> k, lastMessage |-> out.id]

\* a Room model call by w has just been made on the document w held
Called(w, op) ==
  wpc[w] = "loaded" /\ wpc'[w] = "idle" /\ wres'.w = w /\ wres'.op = op

Holds(doc, u) == \E i \in DOMAIN doc.members : doc.members[i].user = u

Full(doc) == Len(doc.members) = doc.maxMembers

\* C5 as stated: addMember on a full room fails with the capacity error, and
\* addMember of a present user fails with the already-member error; the member
\* list is left as it was.
C5_AsStated ==
  [][\A w \in Workers :
       Called(w, "addMember") =>
         LET doc == wdoc[w].doc
             u == wres'.user
         IN /\ Full(doc) => wres'.error = "capacity" /\ rooms' = rooms
            /\ Holds(doc, u) => wres'.error = "already" /\ rooms' = rooms]_vars

\* C5: addMember of a user already in the member list fails with the
\* already-member error, also when the room is full; addMember of any other
\* user on a full room fails with the capacity error; the member list is left
\* as it was in both cases.
C5_AddMemberErrors ==
  [][\A w \in Workers :
       Called(w, "addMember") =>
         LET doc == wdoc[w].doc
             u == wres'.user
         IN /\ Holds(doc, u) => wres'.error = "already" /\ rooms' = rooms
            /\ (Full(doc) /\ ~Holds(doc, u)) =>
                 wres'.error = "capacity" /\ rooms' = rooms]_vars

\* a third user is refused by a room of capacity 2 that holds 2 members
C5_Witness ==
  /\ wres.op = "addMember" /\ wres.error = "capacity"
  /\ \E r \in DOMAIN rooms :
       rooms[r].maxMembers = 2 /\ Len(rooms[r].members) = 2
         /\ ~Holds(rooms[r], wres.user)

WithinCapacity(doc) == Len(doc.members) <= doc.maxMembers

\* C6 as stated: no room ever has more members than maxMembers, concurrent
\* addMember calls included.
C6_AsStated == \A r \in DOMAIN rooms : WithinCapacity(rooms[r])

\* w's addMember acts on a document of room r read before r's last write
StaleAdd(w, r) ==
  /\ Called(w, "addMember")
  /\ wdoc[w].id = r
  /\ wdoc[w].doc.members # rooms[r].members

\* C6: a room is created within its capacity, and its member count passes
\* maxMembers only by an addMember that acts on a document read before
\* another write to the room; calls that do not overlap keep the count
\* within maxMembers.
C6_CapacityButForRace ==
  [][\A r \in DOMAIN rooms' :
       IF r \in DOMAIN rooms
       THEN (WithinCapacity(rooms[r]) /\ ~WithinCapacity(rooms'[r])) =>
              \E w \in Workers : StaleAdd(w, r)
       ELSE WithinCapacity(rooms'[r])]_vars

\* a room filled to its capacity by addMember
C6_Witness ==
  /\ wres.op = "addMember" /\ wres.error = ""
  /\ \E r \in DOMAIN rooms :
       Len(rooms[r].members) = rooms[r].maxMembers /\ Holds(rooms[r], wres.user)

NoDuplicates(doc) ==
  \A i, j \in DOMAIN doc.members :
    doc.members[i].user = doc.members[j].user => i = j

\* C7 as stated: no user is twice in a room's member list, under any
\* interleaving of creation, addMember, removeMember and updateMemberRole.
C7_AsStated == \A r \in DOMAIN rooms : NoDuplicates(rooms[r])

\* C7: a room is created with one member, and a user comes to be twice in a
\* member list only by an addMember that acts on a document read before
\* another write to the room; under calls that do not overlap no user is
\* ever twice in a list.
C7_UniqueButForRace ==
  [][\A r \in DOMAIN rooms' :
       IF r \in DOMAIN rooms
       THEN (NoDuplicates(rooms[r]) /\ ~NoDuplicates(rooms'[r])) =>
              \E w \in Workers : StaleAdd(w, r)
       ELSE NoDuplicates(rooms'[r])]_vars

\* a user removed and added again is once in the list
C7_Witness ==
  /\ wres.op = "addMember" /\ wres.error = ""
  /\ \E r \in DOMAIN rooms :
       /\ rooms[r].v >= 3
       /\ Len(rooms[r].members) >= 2
       /\ NoDuplicates(rooms[r])
       /\ Holds(rooms[r], wres.user)

\* a handshake token that verifies and names a stored user
Resolves(token) == token.kind = "valid" /\ token.id \in Users

\* C8: a connection whose handshake token is missing, invalid or names no
\* stored user is rejected and stays so: no identity, no handlers, no channel,
\* no handler running, no callback and no event of its own; the step that
\* rejects it changes no status and emits nothing, and a status changes only
\* in a step of a connection whose token resolved.
C8_State ==
  \A c \in Conns :
    (handshake[c] # NoToken /\ ~Resolves(handshake[c])) =>
      /\ state[c] = "Rejected"
      /\ userId[c] = 0
      /\ ~registered[c]
      /\ subs[c] = {}
      /\ pc[c] = "idle"
      /\ off[c] = "none"
      /\ emitted.from # c
      /\ out.conn # c

C8_Step ==
  /\ \A c \in Conns :
       (state[c] # "Rejected" /\ state'[c] = "Rejected") =>
         status' = status /\ emitted' = NoEvent
  /\ status' # status =>
       emitted'.from \in Conns /\ Resolves(handshake[emitted'.from])

C8_Rejected == []C8_State /\ [][C8_Step]_vars

\* a token naming no stored user is rejected while another user is online
C8_Witness ==
  \E c, d \in Conns :
    /\ handshake[c] = [kind |-> "valid", id |-> 0] /\ state[c] = "Rejected"
    /\ registered[d] /\ status[userId[d]] = "online"

\* connection c's command has just been dispatched: answered at once, or its
\* handler is at its next await
DispatchedConv(c, k) ==
  /\ Ready(c)
  /\ \/ out'.conn = c /\ out'.kind = "message:send:conversation" /\ out'.req = k
     \/ /\ pc'[c] # "idle"
        /\ local'[c].cmd = "message:send:conversation"
        /\ local'[c].conversationId = k

DispatchedRoom(c, cmd, r) ==
  /\ Ready(c)
  /\ \/ out'.conn = c /\ out'.kind = cmd /\ out'.req = r
     \/ pc'[c] # "idle" /\ local'[c].cmd = cmd /\ local'[c].roomId = r

\* the request is answered with the error and nothing else happens
Refused(c) ==
  /\ out'.conn = c /\ ~out'.ok /\ out'.error = "Not authorized"
  /\ messages' = messages /\ convs' = convs /\ rooms' = rooms
  /\ emitted' = NoEvent
  /\ subs' = subs
  /\ state'[c] = "Authenticated" /\ registered'[c]
  /\ pc'[c] = "idle"

\* C9: a message:send:conversation from a user who is not a participant of
\* the conversation, and a message:send:room or room:join from a user who is
\* not a member of the room, is answered with the error and the handler
\* returns: no message stored, conversations and rooms as they were, nothing
\* emitted, no channel joined, the connection still open and Authenticated.
C9_Unauthorized ==
  [][\A c \in Conns :
       /\ \A k \in DOMAIN convs :
            (DispatchedConv(c, k) /\ userId[c] \notin PairOf(convs[k])) =>
              Refused(c)
       /\ \A r \in DOMAIN rooms, cmd \in {"room:join", "message:send:room"} :
            (DispatchedRoom(c, cmd, r) /\ ~Holds(rooms[r], userId[c])) =>
              Refused(c)]_vars

\* a non-participant's send was refused in a conversation that has a message
C9_Witness ==
  /\ out.kind = "message:send:conversation" /\ out.error = "Not authorized"
  /\ out.req \in DOMAIN convs
  /\ userId[out.conn] \notin PairOf(convs[out.req])
  /\ convs[out.req].lastMessage # 0
  /\ state[out.conn] = "Authenticated"

\* the open connections that have joined channel ch
Joined(ch) == {d \in Conns : state[d] = "Authenticated" /\ ch \in subs[d]}

\* C10: the step that completes a send (either variant) answers the sender
\* with the message and emits message:new, carrying it, to every open
\* connection that has joined the parent's channel at that moment, the
\* sender's own connections included.
C10_FanOut ==
  [][\A c \in Conns :
       (pc[c] \in {"send_conv_update", "send_room_update"} /\ pc'[c] = "idle") =>
         LET ch == IF pc[c] = "send_conv_update"
                   THEN Chan("conversation", local[c].conversationId)
                   ELSE Chan("room", local[c].roomId)
         IN /\ out'.conn = c /\ out'.ok /\ out'.id = local[c].message
            /\ emitted'.type = "message:new"
            /\ emitted'.id = local[c].message
            /\ Joined(ch) \subseteq emitted'.to]_vars

\* a message reached the sending connection and another connection of the sender
C10_Witness ==
  /\ out.kind = "message:send:conversation" /\ out.ok
  /\ emitted.type = "message:new" /\ emitted.id = out.id
  /\ \E d \in emitted.to :
       d # out.conn /\ userId[d] = userId[out.conn] /\ out.conn \in emitted.to

\* the connection is closed and none of its handlers is left to run
Settled(c) == state[c] = "Closed" /\ pc[c] = "idle" /\ off[c] # "pending"

\* C11: once an Authenticated connection has closed and its handlers have all
\* run, its disconnect handler has set the user's status offline and sent
\* user:offline, also when it closed while the connection handler was still
\* awaiting the store.
C11_OfflineOnceSettled == \A c \in Conns : Settled(c) => off[c] = "done"

TypingTypes == {"typing:start", "typing:stop"}

\* C12: a typing:start or typing:stop command is answered with no callback,
\* and its event goes to the open connections that have joined the channel
\* the command names (the conversation's, else the room's), the sending
\* connection left out: the sender never gets it and no connection outside
\* the channel gets it.
C12_TypingRouted ==
  [][\A c \in Conns :
       (emitted'.type \in TypingTypes /\ emitted'.from = c) =>
         LET ch == IF emitted'.conversationId # 0
                   THEN Chan("conversation", emitted'.conversationId)
                   ELSE Chan("room", emitted'.roomId)
         IN /\ emitted'.to = Joined(ch) \ {c}
            /\ c \notin emitted'.to
            /\ emitted'.id = userId[c]
            /\ out' = NoOut
            /\ subs' = subs]_vars

\* a subscriber's typing:start reached the other subscriber and not the sender
C12_Witness ==
  /\ emitted.type = "typing:start"
  /\ emitted.conversationId # 0
  /\ emitted.from \in Joined(Chan("conversation", emitted.conversationId))
  /\ emitted.to # {}

\* connection c is answered with an error and nothing else: it stays open with
\* its handlers and channels, no handler of it is left running, so no second
\* callback follows and the next command can be dispatched
FailedOnly(c) ==
  /\ out'.conn = c /\ ~out'.ok /\ out'.error # ""
  /\ state'[c] = "Authenticated" /\ registered'[c]
  /\ subs'[c] = subs[c]
  /\ pc'[c] = "idle"
  /\ emitted' = NoEvent

RoomNamesOf(rs) == {rs[r].name : r \in DOMAIN rs}

\* C13: on an open connection, a send or join that names no stored
\* conversation or room, a send whose content is missing or longer than 5000,
\* and a room:create whose name is taken are each answered with one error
\* callback; every error callback leaves the connection Authenticated, its
\* channels as they were and no handler running, and a room:create that
\* succeeds created a room under a name no room had.
C13_FailureReplies ==
  [][\A c \in Conns :
       /\ (state[c] = "Authenticated" /\ out'.conn = c /\ ~out'.ok) =>
            FailedOnly(c)
       /\ \A k \in ConvIds \ DOMAIN convs :
            DispatchedConv(c, k) => FailedOnly(c) /\ UNCHANGED storeVars
       /\ \A r \in RoomIds \ DOMAIN rooms,
             cmd \in {"room:join", "message:send:room"} :
            DispatchedRoom(c, cmd, r) => FailedOnly(c) /\ UNCHANGED storeVars
       /\ ( /\ state[c] = "Authenticated"
            /\ pc[c] \in {"send_conv_create", "send_room_create"}
            /\ pc'[c] # pc[c]
            /\ (local[c].content = 0 \/ local[c].content > MaxContentLen) ) =>
            FailedOnly(c) /\ UNCHANGED storeVars
       /\ (Ready(c) /\ out'.conn = c /\ out'.kind = "room:create") =>
            IF out'.ok
            THEN /\ Len(rooms') = Len(rooms) + 1
                 /\ rooms'[Len(rooms')].name \notin RoomNamesOf(rooms)
            ELSE FailedOnly(c) /\ rooms' = rooms /\ rooms # <<>>]_vars

\* a send with an over-long content was refused on a connection that keeps its
\* conversation channel
C13_Witness ==
  /\ out.kind = "message:send:conversation" /\ out.error = "ValidationError"
  /\ state[out.conn] = "Authenticated"
  /\ Chan("conversation", out.req) \in subs[out.conn]
  /\ Ready(out.conn)

\* the entries of message m's read list that name user u
ReadEntries(m, u) == {i \in DOMAIN messages[m].readBy : messages[m].readBy[i].user = u}

\* C14: no user is twice in a message's read list, however many markAsRead
\* calls were made for that user, one after another or concurrently.
C14_ReadOnce ==
  \A m \in DOMAIN messages, u \in Users : Cardinality(ReadEntries(m, u)) <= 1

\* C15: softDelete leaves the message stored with isDeleted = true and the
\* tombstone as its content; no message is ever removed from the store and a
\* deleted message stays deleted; findById still returns it; and every
\* getRecentMessages result is the parent's messages that are not deleted,
\* newest first, so a deleted message is in none of them.
C15_State ==
  wres.op = "getRecentMessages" =>
    /\ \A i \in DOMAIN wres.list :
         /\ wres.list[i] \in DOMAIN messages
         /\ ~messages[wres.list[i]].isDeleted
         /\ messages[wres.list[i]].conversation = wres.parent
         /\ \A j \in DOMAIN wres.list : i < j => wres.list[i] > wres.list[j]
    /\ \A m \in DOMAIN messages :
         (messages[m].conversation = wres.parent /\ ~messages[m].isDeleted) =>
           \E i \in DOMAIN wres.list : wres.list[i] = m

C15_Step ==
  /\ \A w \in Workers :
       Called(w, "softDelete") =>
         /\ messages'[wdoc[w].id].isDeleted
         /\ messages'[wdoc[w].id].content = TombstoneLen
         /\ Len(messages') = Len(messages)
  /\ \A m \in DOMAIN messages :
       /\ m \in DOMAIN messages'
       /\ messages[m].isDeleted => messages'[m].isDeleted
  /\ \A w \in Workers :
       (wpc[w] = "idle" /\ wpc'[w] = "loaded") =>
         wdoc'[w].doc = messages[wdoc'[w].id]

Fresh(w) == wdoc[w].id \in DOMAIN convs /\ wdoc[w].doc = convs[wdoc[w].id]

\* C16: every unread count is a natural number; an incrementUnread(u) on a
\* freshly loaded conversation raises getUnreadCount(u) by one, and a
\* resetUnread(u) on a freshly loaded conversation, whatever the number of
\* increments before it, leaves getUnreadCount(u) = 0.
C16_State ==
  \A k \in DOMAIN convs :
    \A i \in DOMAIN convs[k].unreadCount : convs[k].unreadCount[i].val \in Nat

C16_Step ==
  \A w \in Workers :
    /\ (Called(w, "resetUnread") /\ Fresh(w)) =>
         /\ wres'.error = ""
         /\ GetUnreadCount(convs'[wdoc[w].id], wres'.user) = 0
    /\ (Called(w, "incrementUnread") /\ Fresh(w)) =>
         /\ wres'.error = ""
         /\ GetUnreadCount(convs'[wdoc[w].id], wres'.user)
              = GetUnreadCount(convs[wdoc[w].id], wres'.user) + 1

C16_ResetUnread == []C16_State /\ [][C16_Step]_vars

\* a reset to 0 of the count of a user that two increments had raised: the
\* user is no participant, so the entry was pushed by the first increment
C16_Witness ==
  /\ wres.op = "resetUnread" /\ wres.error = ""
  /\ \E k \in DOMAIN convs :
       /\ ~IsParticipant(convs[k], wres.user)
       /\ FindEntry(convs[k].unreadCount, wres.user) # 0
       /\ GetUnreadCount(convs[k], wres.user) = 0


\* ids lists, without repetition, exactly the conversations u participates
\* in (minus those archived for u unless includeArchived), every pinned one
\* before every other, and each group by descending last activity
ListedFor(ids, u, includeArchived) ==
  /\ \A i, j \in DOMAIN ids : ids[i] = ids[j] => i = j
  /\ Range(ids) = {k \in DOMAIN convs :
                     /\ IsParticipant(convs[k], u)
                     /\ includeArchived \/ ~IsArchivedForUser(convs[k], u)}
  /\ \A i, j \in DOMAIN ids :
       i < j =>
         /\ IsPinnedForUser(convs[ids[j]], u) => IsPinnedForUser(convs[ids[i]], u)
         /\ (IsPinnedForUser(convs[ids[i]], u) = IsPinnedForUser(convs[ids[j]], u))
              => convs[ids[i]].lastMessageAt >= convs[ids[j]].lastMessageAt

\* C17: the list getUserConversations(u, includeArchived) returns, and the
\* list the conversation:list command replies with, hold exactly u's
\* conversations minus those archived for u (unless includeArchived), the
\* pinned ones first, each group in descending last-activity order.
C17_ConversationList ==
  [][/\ (wres'.op = "getUserConversations" /\ UNCHANGED <<storeVars, gatewayVars>>) =>
          ListedFor(wres'.list, wres'.user, wres'.error = "all")
     /\ \A c \in Conns :
          ( /\ Ready(c) /\ out'.conn = c
            /\ out'.kind = "conversation:list" /\ out'.ok
            /\ UNCHANGED <<storeVars, workerVars>> ) =>
            ListedFor([i \in DOMAIN out'.list |-> out'.list[i].id], userId[c], FALSE)]_vars

\* the half of C17 that the model call alone is held to
C17_ModelCall ==
  [][(wres'.op = "getUserConversations" /\ UNCHANGED <<storeVars, gatewayVars>>) =>
       ListedFor(wres'.list, wres'.user, wres'.error = "all")]_vars

\* getUserConversations listed a pinned conversation before a more recently
\* active one and left out one archived for the user
C17_ModelWitness ==
  /\ wres.op = "getUserConversations" /\ wres.error = "" /\ Len(wres.list) = 1
  /\ \E k \in DOMAIN convs :
       /\ IsParticipant(convs[k], wres.user)
       /\ IsArchivedForUser(convs[k], wres.user)


\* C18: removeMember(u) and updateMemberRole(u, role) on a room whose member
\* list has no entry for u fail with the not-a-member error and leave the
\* list as it was; on a room that has u and was not written since it was
\* loaded, removeMember takes out u's entries and nothing else, and
\* updateMemberRole changes the role of u's entry and nothing else.
C18_NotAMember ==
  [][\A w \in Workers, op \in {"removeMember", "updateMemberRole"} :
       Called(w, op) =>
         LET r == wdoc[w].id
             u == wres'.user
         IN IF ~Holds(wdoc[w].doc, u)
            THEN wres'.error = "not a member" /\ rooms' = rooms
            ELSE (rooms[r] = wdoc[w].doc) =>
                   /\ wres'.error = ""
                   /\ Len(rooms') = Len(rooms)
                   /\ \A q \in DOMAIN rooms : q # r => rooms'[q] = rooms[q]
                   /\ IF op = "removeMember"
                      THEN rooms'[r].members = WithoutMember(rooms[r].members, u)
                      ELSE /\ Len(rooms'[r].members) = Len(rooms[r].members)
                           /\ \A i \in DOMAIN rooms[r].members :
                                /\ rooms'[r].members[i].user = rooms[r].members[i].user
                                /\ rooms[r].members[i].user # u =>
                                     rooms'[r].members[i] = rooms[r].members[i]]_vars


\* C19: a room:create that succeeds adds one room, under a name no room had,
\* whose member list is the single entry of the creating user with role owner,
\* and joins the creating connection to that room's channel; one that fails
\* replies an error and adds no room; no two rooms ever share a name.
C19_State ==
  \A q, r \in DOMAIN rooms : rooms[q].name = rooms[r].name => q = r

C19_Step ==
  \A c \in Conns :
    (Ready(c) /\ out'.conn = c /\ out'.kind = "room:create") =>
      IF out'.ok
      THEN /\ Len(rooms') = Len(rooms) + 1
           /\ out'.id = Len(rooms')
           /\ \A r \in DOMAIN rooms : rooms'[r] = rooms[r]
           /\ rooms'[out'.id].members = <<[user |-> userId[c], role |-> "owner"]>>
           /\ \A r \in DOMAIN rooms : rooms[r].name # rooms'[out'.id].name
           /\ subs'[c] = subs[c] \cup {Chan("room", out'.id)}
      ELSE /\ out'.error # ""
           /\ rooms' = rooms
           /\ subs' = subs

C19_RoomCreate == []C19_State /\ [][C19_Step]_vars

\* a room:create was refused for its name while two rooms exist, the refused
\* connection being subscribed to the room its user created as sole owner
C19_Witness ==
  /\ out.kind = "room:create" /\ ~out.ok /\ out.error = "E11000"
  /\ Len(rooms) = MaxRooms
  /\ \E r \in DOMAIN rooms :
       /\ Chan("room", r) \in subs[out.conn]
       /\ rooms[r].members = <<[user |-> userId[out.conn], role |-> "owner"]>>


\* C20: every connection sets its user's stored status on its own: the
\* connection handler sets it online, with user:online to all the other
\* connections, while the connection is open; the close of an authenticated
\* connection always leaves its disconnect handler to run, and that handler
\* sets the status offline, with user:offline to the others, whether or not
\* the user has another open connection.
C20_PerConnectionStatus ==
  [][\A c \in Conns :
       /\ (pc[c] = "conn_online" /\ pc'[c] = "idle") =>
            /\ state[c] = "Authenticated"
            /\ status'[userId[c]] = "online"
            /\ emitted' = Event("user:online", userId[c], c, Others(c))
       /\ (state[c] = "Authenticated" /\ state'[c] = "Closed") =>
            off'[c] = "pending"
       /\ (off[c] = "pending" /\ off'[c] = "done") =>
            /\ status'[userId[c]] = "offline"
            /\ emitted' = Event("user:offline", userId[c], c, Others(c))]_vars


\* connection c may be on channel ch: its user is a participant of the
\* conversation, or is in the member list of the room, as stored in rs and cs
Entitled(c, ch, cs, rs) ==
  /\ ch.kind = "conversation" =>
       ch.id \in DOMAIN cs /\ IsParticipant(cs[ch.id], userId[c])
  /\ ch.kind = "room" =>
       ch.id \in DOMAIN rs /\ IsMember(rs[ch.id], userId[c])

\* C21: after every step each connection is on a conversation's channel only
\* if its user is a participant and on a room's channel only if its user is in
\* the room's member list at that moment, removals included; and the step that
\* emits message:new reaches no connection whose user is outside the
\* message's parent.
C21_SubscribedOnlyIfMember ==
  [][/\ \A c \in Conns : \A ch \in subs'[c] : Entitled(c, ch, convs', rooms')
     /\ \A c \in Conns :
          (pc[c] \in {"send_conv_update", "send_room_update"} /\ pc'[c] = "idle") =>
            LET ch == IF pc[c] = "send_conv_update"
                      THEN Chan("conversation", local[c].conversationId)
                      ELSE Chan("room", local[c].roomId)
            IN \A d \in emitted'.to : Entitled(d, ch, convs', rooms')]_vars


\* the messages stored for conversation k; ids follow the order of creation
MessagesOf(k) ==
  {m \in DOMAIN messages : messages[m].conversation = Chan("conversation", k)}

\* no message:send:conversation handler is between its store steps
SendsCompleted ==
  \A c \in Conns : pc[c] \notin {"send_conv_create", "send_conv_update"}

\* C22: whenever every send-message request for conversations has completed,
\* each conversation that has messages references, as its lastMessage, the
\* one created last, however the requests' store steps were interleaved.
C22_LastMessageIsNewest ==
  SendsCompleted =>
    \A k \in DOMAIN convs :
      MessagesOf(k) # {} =>
        /\ convs[k].lastMessage \in MessagesOf(k)
        /\ \A m \in MessagesOf(k) : m <= convs[k].lastMessage


\* the user the handshake token of connection c names
TokenUser(c) == handshake[c].id

PresenceTypes == {"user:online", "user:offline"}

\* C23: a connection's identity is the user its handshake token named and
\* never changes; every stored message was stored by a command of a
\* connection under that identity, whatever ids the command's payload names;
\* every typing and presence event carries the identity of the connection it
\* comes from, and every message:new the message of that connection's user.
C23_State ==
  /\ \A c \in Conns :
       state[c] \in {"Authenticated", "Closed"} =>
         Resolves(handshake[c]) /\ userId[c] = TokenUser(c)
  /\ emitted.type \in TypingTypes \cup PresenceTypes =>
       emitted.from \in Conns /\ emitted.id = TokenUser(emitted.from)
  /\ emitted.type = "message:new" =>
       /\ emitted.from \in Conns /\ emitted.id \in DOMAIN messages
       /\ messages[emitted.id].sender = TokenUser(emitted.from)

C23_Step ==
  /\ \A m \in DOMAIN messages :
       m \in DOMAIN messages' /\ messages'[m].sender = messages[m].sender
  /\ \A c \in Conns :
       userId[c] # 0 => userId'[c] = userId[c] /\ handshake'[c] = handshake[c]
  /\ Len(messages') # Len(messages) =>
       /\ Len(messages') = Len(messages) + 1
       /\ \E c \in Conns :
            /\ pc[c] \in {"send_conv_create", "send_room_create"}
            /\ pc'[c] \in {"send_conv_update", "send_room_update"}
            /\ local'[c].message = Len(messages')
            /\ messages'[Len(messages')].sender = TokenUser(c)

C23_SenderIsBoundUser == []C23_State /\ [][C23_Step]_vars

\* user 2 has stored a message in a conversation it shares with user 1, whose
\* id the command named, and a connection of user 2 emits a typing event there
C23_Witness ==
  /\ emitted.type \in TypingTypes /\ emitted.id = 2 /\ emitted.conversationId = 1
  /\ \E d \in Conns : d # emitted.from /\ state[d] = "Authenticated" /\ userId[d] = 1
  /\ \E m \in DOMAIN messages :
       /\ messages[m].sender = 2
       /\ messages[m].conversation = Chan("conversation", 1)
       /\ convs[1].participants = <<1, 2>>


PerUserFields == {"unreadCount", "isArchived", "isPinned"}

\* the per-user list a method writes
FieldOf(op) ==
  IF op \in {"incrementUnread", "resetUnread"} THEN "unreadCount"
  ELSE IF op = "archiveForUser" THEN "isArchived"
  ELSE "isPinned"

\* C24: incrementUnread, resetUnread, archiveForUser and pinForUser called for
\* a participant u change nothing but the value of u's entry in the method's
\* own list: every list keeps its entries and their users, every entry of the
\* other participant and every entry of the other two lists keeps its value,
\* participants, lastMessage and lastMessageAt and every other conversation
\* stay as they are; and an archiveForUser or pinForUser that sets the value
\* u's entry already has (a second call with the same value) changes nothing.
C24_OnlyOwnEntry ==
  [][\A w \in Workers,
        op \in {"incrementUnread", "resetUnread", "archiveForUser", "pinForUser"} :
       (Called(w, op) /\ IsParticipant(wdoc[w].doc, wres'.user)) =>
         LET k == wdoc[w].id
             u == wres'.user
         IN /\ Len(convs') = Len(convs)
            /\ \A j \in DOMAIN convs : j # k => convs'[j] = convs[j]
            /\ convs'[k].participants = convs[k].participants
            /\ convs'[k].lastMessage = convs[k].lastMessage
            /\ convs'[k].lastMessageAt = convs[k].lastMessageAt
            /\ \A f \in PerUserFields :
                 /\ Len(convs'[k][f]) = Len(convs[k][f])
                 /\ \A i \in DOMAIN convs[k][f] :
                      /\ convs'[k][f][i].user = convs[k][f][i].user
                      /\ (f # FieldOf(op) \/ convs[k][f][i].user # u) =>
                           convs'[k][f][i] = convs[k][f][i]
            /\ ( /\ op \in {"archiveForUser", "pinForUser"}
                 /\ \A i \in DOMAIN convs[k][FieldOf(op)] :
                      convs'[k][FieldOf(op)][i].val = convs[k][FieldOf(op)][i].val ) =>
                 convs' = convs /\ wres'.error = ""]_vars

\* user 2 has just pinned a conversation in which user 1 has an unread
\* message and an archived flag, and user 2 has neither
C24_Witness ==
  /\ wres.op = "pinForUser" /\ wres.user = 2 /\ wres.error = ""
  /\ \E k \in DOMAIN convs :
       /\ convs[k].participants = <<1, 2>>
       /\ convs[k].isPinned = <<[user |-> 1, val |-> FALSE], [user |-> 2, val |-> TRUE]>>
       /\ convs[k].isArchived = <<[user |-> 1, val |-> TRUE], [user |-> 2, val |-> FALSE]>>
       /\ convs[k].unreadCount = <<[user |-> 1, val |-> 1], [user |-> 2, val |-> 0]>>
====
